---- MODULE Spec2Model ----
(***************************************************************************)
(* Flow iterator of articy-node (src/src/iterator.ts): basicNextFlowState, *)
(* collectBranches, refreshBranches, advancedStartupFlowState and          *)
(* advancedNextFlowState, as a state machine over a heap of variable       *)
(* stores and FlowState objects.  collectBranches is modelled step by      *)
(* step with an explicit call stack, one action per loop iteration, fork   *)
(* iteration and return.                                                   *)
(*                                                                         *)
(* The flow nodes (flowTypes.ts) and the database are collaborators whose  *)
(* code is not part of the sources; they are modelled from the node        *)
(* capability the specification describes: numBranches, next, needsShadow, *)
(* execute, is(type) and template.                                         *)
(***************************************************************************)
EXTENDS Integers, Sequences, FiniteSets, TLC

VARIABLES
    graph,    \* the database content and the iteration config (never changes)
    stores,   \* heap of VariableStore objects: reference -> content
    iters,    \* heap of FlowState objects used by collectBranches
    stack,    \* call stack of collectBranches, innermost call last
    adv,      \* the AdvancedFlowState the application holds
    op,       \* the entry point in progress and what it still has to do
    obs,      \* observations of the last call: inputs, results, counters
    scriptCtx \* script.ts: the module's `state` and `actionQueue`, the
              \* middleware calls in progress and what they dispatched

vars == <<graph, stores, iters, stack, adv, op, obs, scriptCtx>>

-----------------------------------------------------------------------------
(* Bounds of the model *)

\* longest branch path collectBranches may build (cuts walks round a cycle)
MaxPath == 4
\* commits are made only from states whose turn is below MaxTurn
MaxTurn == 3

-----------------------------------------------------------------------------
(* Values *)

Null == "null"
Undef == "undefined"
NoNode == "undefined-node"

\* ids that resolve to a flow node in the database
Nodes == {"A", "B", "C", "D"}
\* an id no object of the database has
Unresolved == "X"
Ids == Nodes \cup {Unresolved}

\* CustomStopType (iterator.ts 173-189)
NormalStop == "NORMAL_STOP"
StopAndContinue == "STOP_AND_CONTINUE"
Continue == "CONTINUE"
\* a value outside the enum, as an untyped handler can return
Bogus == "BOGUS"

\* content of a VariableStore: the empty object {} or one variable x
EmptyStore == [v \in {} |-> 0]
StoreOf(x) == [v \in {"x"} |-> x]
NewStoreContent == StoreOf(0)

\* an object used as a map (VisitCounts, VisitIndicies)
EmptyMap == [v \in {} |-> 0]
Get(m, k, default) == IF k \in DOMAIN m THEN m[k] ELSE default
Put(m, k, v) == (k :> v) @@ m

EmptyVisits == [counts |-> EmptyMap, indicies |-> EmptyMap]

\* FlowBranch (iterator.ts 46-61)
FlowBranch(index, path) == [index |-> index, path |-> path]

-----------------------------------------------------------------------------
(* The graphs and configurations the model is run on.  A graph gives, per  *)
(* node, its ordered targets, whether it carries an instruction script,    *)
(* whether its last branch is behind a condition on x, whether its type is *)
(* in stopAtTypes, what the customStopHandler answers for it, and whether  *)
(* its template has Visit_Limitation.Only_Once.                            *)

Tgt(a, b, c, d) == [n \in Nodes |->
    CASE n = "A" -> a [] n = "B" -> b [] n = "C" -> c [] OTHER -> d]

Topologies == {
    \* chain A -> B -> C
    Tgt(<<"B">>, <<"C">>, <<>>, <<>>),
    \* diamond
    Tgt(<<"B", "C">>, <<"D">>, <<"D">>, <<>>),
    \* loop back from B to A
    Tgt(<<"B">>, <<"A", "C">>, <<>>, <<>>),
    \* dead ends: unresolved targets
    Tgt(<<"B", "X">>, <<"C">>, <<"X">>, <<>>),
    \* nested forks with a cycle through D
    Tgt(<<"B", "C">>, <<"C", "D">>, <<"D">>, <<"A">>),
    \* two-node cycle
    Tgt(<<"B">>, <<"A">>, <<>>, <<>>),
    \* chain into a fork
    Tgt(<<"B">>, <<"C", "D">>, <<>>, <<>>)
}

ScriptSets == {{}, {"A"}, {"B"}, {"B", "C"}}
GuardSets == {{}, {"A"}, {"B"}}
OnlyOnceSets == {{}, {"B"}, {"C"}}

\* stopAtTypes membership of each node's type, handler presence and answers
StopConfigs == {
    [stop |-> {"B", "C", "D"}, handler |-> TRUE,
     answer |-> Tgt(NormalStop, StopAndContinue, NormalStop, NormalStop)],
    [stop |-> {"B", "C", "D"}, handler |-> FALSE,
     answer |-> Tgt(NormalStop, NormalStop, NormalStop, NormalStop)],
    [stop |-> {"B", "C", "D"}, handler |-> TRUE,
     answer |-> Tgt(NormalStop, Continue, StopAndContinue, NormalStop)],
    [stop |-> {"A", "B", "C", "D"}, handler |-> TRUE,
     answer |-> Tgt(NormalStop, NormalStop, Bogus, Undef)],
    [stop |-> {"C", "D"}, handler |-> TRUE,
     answer |-> Tgt(NormalStop, NormalStop, StopAndContinue, Undef)],
    [stop |-> {}, handler |-> FALSE,
     answer |-> Tgt(NormalStop, NormalStop, NormalStop, NormalStop)]
}

Graphs == [targets : Topologies, script : ScriptSets, guard : GuardSets,
           onlyOnce : OnlyOnceSets, cfg : StopConfigs]

-----------------------------------------------------------------------------
(* Database and node capability *)

\* db.getObject(id, BaseFlowNode): the node, or undefined
getObject(id) == IF id \in Nodes THEN id ELSE NoNode

\* node.needsShadow(): the node has a script that writes variables
needsShadow(n) == n \in graph.script

\* the targets of the node that are open in this store: the last one is
\* closed while x = 0 when the node is guarded
OpenTargets(n, content) ==
    LET t == graph.targets[n] IN
    IF n \in graph.guard /\ Len(t) > 0 /\ content["x"] = 0
    THEN SubSeq(t, 1, Len(t) - 1) ELSE t

\* node.numBranches(vars, last, shadowing)
numBranches(n, content) == Len(OpenTargets(n, content))

\* the node that node.next(vars, branchIndex, last, shadowing) returns:
\* branch -1 is followed only when there is exactly one
nextNode(n, content, branchIndex) ==
    LET t == OpenTargets(n, content) IN
    IF branchIndex = -1
    THEN (IF Len(t) = 1 THEN getObject(t[1]) ELSE NoNode)
    ELSE IF branchIndex >= 0 /\ branchIndex < Len(t)
         THEN getObject(t[branchIndex + 1]) ELSE NoNode

\* the effect of the node's script on the store it is given (next, execute)
scriptEffect(n, content) ==
    IF needsShadow(n) THEN [content EXCEPT !["x"] = 1] ELSE content

\* node.template.Visit_Limitation.Only_Once
onlyOnce(n) == n \in graph.onlyOnce

-----------------------------------------------------------------------------
(* iterator.ts *)

\* a stop-set check that matches no node
shouldStopAtNever(n) == FALSE

\* a stop-set check that matches every node
shouldStopAtAll(n) == TRUE

\* a stop-set check that matches the nodes outside the stop-set
shouldStopAtOthers(n) == n \notin graph.cfg.stop

\* shouldStopAt (304-312)
shouldStopAt(n) == n \in graph.cfg.stop

\* cloneVariableStore handing back the store itself instead of a copy
cloneVariableStoreAliased(h, ref) == [stores |-> h, ref |-> ref]

\* cloneVariableStore (581-583): a new store object with the same content;
\* the values are booleans, numbers and strings, which JSON round-trips
cloneVariableStore(h, ref) == [stores |-> Append(h, h[ref]), ref |-> Len(h) + 1]

\* basicNextFlowState that stays on the node of the state it is given
basicNextFlowStateStays(state, branchIndex, h) ==
    [state |-> [id |-> state.id, last |-> state.id,
                variables |-> state.variables,
                shadowing |-> state.shadowing],
     node |-> IF state.id = Null THEN NoNode ELSE getObject(state.id),
     stores |-> h, same |-> FALSE, calls |-> 1]

\* basicNextFlowState without the early return for a missing id
basicNextFlowStateNoIdCheck(state, branchIndex, h) ==
    [state |-> [id |-> Null, last |-> Null, variables |-> Len(h) + 1,
                shadowing |-> state.shadowing],
     node |-> NoNode, stores |-> Append(h, EmptyStore), same |-> FALSE,
     calls |-> 1]

\* basicNextFlowState ending a traversal without clearing `last`
basicNextFlowStateKeepsLast(state, branchIndex, h) ==
    IF state.id = Null
    THEN [state |-> state, node |-> NoNode, stores |-> h, same |-> TRUE,
          calls |-> 0]
    ELSE [state |-> [id |-> Null, last |-> state.id,
                     variables |-> Len(h) + 1,
                     shadowing |-> state.shadowing],
          node |-> NoNode, stores |-> Append(h, EmptyStore),
          same |-> FALSE, calls |-> 1]

\* basicNextFlowState (263-302) on a FlowState value, with the store heap.
\* same: the input object itself is returned; calls: uses of the database
basicNextFlowState(state, branchIndex, h) ==
    IF state.id = Null
    THEN [state |-> state, node |-> NoNode, stores |-> h, same |-> TRUE,
          calls |-> 0]
    ELSE
      LET node == getObject(state.id)
          content == h[state.variables]
          next == IF node = NoNode THEN NoNode
                  ELSE nextNode(node, content, branchIndex)
          h1 == IF node = NoNode THEN h
                ELSE [h EXCEPT ![state.variables] = scriptEffect(node, content)]
      IN IF next = NoNode
         THEN [state |-> [id |-> Null, last |-> Null,
                          variables |-> Len(h1) + 1,
                          shadowing |-> state.shadowing],
               node |-> NoNode, stores |-> Append(h1, EmptyStore),
               same |-> FALSE, calls |-> 1]
         ELSE [state |-> [id |-> next, last |-> state.id,
                          variables |-> state.variables,
                          shadowing |-> state.shadowing],
               node |-> next, stores |-> h1, same |-> FALSE, calls |-> 1]

-----------------------------------------------------------------------------
(* collectBranches (444-579), one call per stack frame.                    *)
(* A frame holds the call's parameters and locals: iter (a reference to a  *)
(* FlowState object), node, branch (bidx, path), index, direction,         *)
(* branches, the fork loop's i and result; snap is the store content seen  *)
(* when the fork was reached, kept for the isolation properties.           *)

Frame(pc, iter, node, bidx, path, index, direction, branches, result) ==
    [pc |-> pc, iter |-> iter, node |-> node, bidx |-> bidx, path |-> path,
     index |-> index, direction |-> direction, branches |-> branches,
     i |-> 0, result |-> result, snap |-> EmptyStore, clones |-> 0]

\* lines 454-475: the checks and lookups before the loop.  node is the
\* node argument (NoNode when absent), branch the branch argument
EnterFrame(iter, node, branch, index, direction, h, its) ==
    LET it == its[iter]
        found == IF it.id = Null THEN NoNode
                 ELSE IF node # NoNode THEN node ELSE getObject(it.id)
    IN IF found = NoNode
       THEN Frame("ret", iter, NoNode, branch.index, branch.path, index,
                  direction, 0, <<>>)
       ELSE Frame("loop", iter, found, branch.index, branch.path, index,
                  direction, numBranches(found, h[it.variables]), <<>>)

\* database calls made by lines 454-463
EnterCalls(iter, node, its) ==
    IF its[iter].id # Null /\ node = NoNode THEN 1 ELSE 0

Top == stack[Len(stack)]
SetTop(f) == [stack EXCEPT ![Len(stack)] = f]

\* the while condition of line 478
Walking(f) == f.pc = "loop" /\ (f.branches = 1 \/ f.direction >= 0)

\* a stop handling that takes StopAndContinue for Continue
StopDecisionContinues(n) ==
    IF ~graph.cfg.handler THEN "stop"
    ELSE IF graph.cfg.answer[n] \in {StopAndContinue, Continue}
    THEN "continue" ELSE "stop"

\* a stop handling that knows no StopAndContinue and stops instead
StopDecisionNoFork(n) ==
    IF graph.cfg.handler /\ graph.cfg.answer[n] = Continue
    THEN "continue" ELSE "stop"

\* what the customStopHandler, if any, makes of a node in the stop-set
\* (lines 510-549): "stop", "stopAndContinue" or "continue"
StopDecision(n) ==
    IF ~graph.cfg.handler THEN "stop"
    ELSE LET behaviour == graph.cfg.answer[n] IN
         IF behaviour = NormalStop \/ behaviour = Undef THEN "stop"
         ELSE IF behaviour = StopAndContinue THEN "stopAndContinue"
         ELSE IF behaviour = Continue THEN "continue"
         ELSE "stop"

\* the visit limitation letting a second visit through
VisitLimitedLate(n, visits) == onlyOnce(n) /\ Get(visits.counts, n, 0) > 1

\* the visit limitation of lines 495-504, against the VisitSet passed in
VisitLimited(n, visits) == onlyOnce(n) /\ Get(visits.counts, n, 0) > 0

\* one iteration of the while loop (478-558)
CB_Walk ==
    /\ stack # <<>>
    /\ Walking(Top)
    /\ Len(Top.path) < MaxPath
    /\ LET f == Top
           it == iters[f.iter]
           c == IF needsShadow(f.node)
                THEN cloneVariableStore(stores, it.variables)
                ELSE [stores |-> stores, ref |-> it.variables]
           its1 == [iters EXCEPT ![f.iter].variables = c.ref]
           r == basicNextFlowState(its1[f.iter], f.direction, c.stores)
           its2 == IF r.same THEN its1 ELSE Append(its1, r.state)
           newIter == IF r.same THEN f.iter ELSE Len(its2)
           node == r.node
           path == Append(f.path, node)
           branch == FlowBranch(f.bidx, path)
           moved == [f EXCEPT !.iter = newIter, !.node = node, !.direction = -1,
                              !.clones = @ + (IF needsShadow(f.node) THEN 1 ELSE 0)]
           decision == IF shouldStopAt(node) THEN StopDecision(node)
                       ELSE "continue"
       IN /\ stores' = r.stores
          /\ iters' = its2
          /\ obs' = [obs EXCEPT !.calls = @ + r.calls,
                 !.deadEnds = IF node = NoNode THEN 1 ELSE @,
                 !.killed = @ + (IF node # NoNode
                                    /\ VisitLimited(node, op.state.visits)
                                 THEN 1 ELSE 0)]
          /\ IF node = NoNode \/ VisitLimited(node, op.state.visits)
             THEN stack' = SetTop([moved EXCEPT !.pc = "ret", !.result = <<>>])
             ELSE CASE decision = "stop" ->
                       stack' = SetTop([moved EXCEPT !.pc = "ret", !.path = path,
                                                     !.result = <<branch>>])
                    [] decision = "stopAndContinue" ->
                       stack' = Append(
                           SetTop([moved EXCEPT !.pc = "sac", !.path = path,
                                                !.result = <<branch>>]),
                           EnterFrame(newIter, node,
                                      FlowBranch(f.index + 1, path),
                                      f.index + 1, 0, r.stores, its2))
                    [] OTHER ->
                       stack' = SetTop([moved EXCEPT !.path = path,
                           !.branches = numBranches(node,
                                           r.stores[r.state.variables])])
    /\ UNCHANGED <<graph, adv, op, scriptCtx>>

\* the fork loop (560-578): start the call for branch i, or leave the loop
CB_Fork ==
    /\ stack # <<>>
    /\ \/ Top.pc = "loop" /\ ~Walking(Top)
       \/ Top.pc = "fork"
    /\ LET f == [Top EXCEPT !.snap = IF Top.pc = "loop"
                                     THEN stores[iters[Top.iter].variables]
                                     ELSE @]
       IN IF f.i < f.branches
          THEN stack' = Append(
                   SetTop([f EXCEPT !.pc = "forkwait"]),
                   EnterFrame(f.iter, f.node, FlowBranch(f.index, f.path),
                              f.index, f.i, stores, iters))
          ELSE stack' = SetTop([f EXCEPT !.pc = "ret"])
    /\ UNCHANGED <<graph, stores, iters, adv, op, obs, scriptCtx>>

\* the fork loop leaving its index where it was
nextIndexStale(result, index) == index

\* lines 572-575: the next fork's index follows the last branch collected
nextIndex(result, index) ==
    IF result # <<>> THEN result[Len(result)].index + 1 ELSE index

\* a recursive call returns to its caller: line 524-536 or 567-575
CB_Return ==
    /\ Len(stack) >= 2
    /\ Top.pc = "ret"
    /\ LET sub == Top.result
           rest == SubSeq(stack, 1, Len(stack) - 1)
           p == rest[Len(rest)]
           result == p.result \o sub
       IN stack' = [rest EXCEPT ![Len(rest)] =
              IF p.pc = "sac"
              THEN [p EXCEPT !.pc = "ret", !.result = result]
              ELSE [p EXCEPT !.pc = "fork", !.result = result, !.i = @ + 1,
                             !.index = nextIndex(result, @)]]
    /\ UNCHANGED <<graph, stores, iters, adv, op, obs, scriptCtx>>

-----------------------------------------------------------------------------
(* script.ts: script evaluation and the script dispatch middleware.        *)
(* scriptCtx holds the module's variables `state` and `actionQueue` (the   *)
(* latter a reference into the heap `queues` of queue arrays, 0 for        *)
(* undefined), the middleware calls in progress (innermost last), the log  *)
(* of storeApi.dispatch calls of the current top-level dispatch, the       *)
(* variable store scripts are run on, and what the last runScript did.     *)

\* most actions queued in the course of one top-level dispatch
MaxQueued == 2

\* feature names handlers are registered for, and the handlers
Features == {"Quest", "Mood"}
Handlers == {"h1", "h2"}
\* most handlers registered for one feature
MaxHandlers == 2
\* most dispatches made from inside next(action) per top-level dispatch
MaxNested == 1

\* Redux actions, and what finalizeAction(action) creates
Act(type) == [type |-> type, payload |-> Null]
Actions == {Act("a"), Act("b")}
Finalize(action) == [type |-> "finalize", payload |-> action.type]

\* what next(action) returns: the result of the rest of the chain
NextResult(action) == [result |-> action.type]
NoResultYet == [result |-> Undef]

\* the snapshot storeApi.getState() gives
Snapshot == "state"

\* values of the script language, as literals: booleans "true"/"false",
\* numbers, the string 'true', and undefined
StringTrue == "'true'"
Truthy(v) == v \notin {"false", "0", Undef}

\* the variable store scripts are run on: a number n and a namespace object
ScriptStore(n, x) == [n |-> n, ns |-> [x |-> x]]

\* what a registered function returns: a Variable, or a generator object
\* that yields actions and then returns a final value
Value(v) == [t |-> "value", v |-> v, yields |-> <<>>]
Generator(yields, final) == [t |-> "object", v |-> final, yields |-> yields]

\* registeredFunctions (31): the functions registered in the model, applied
\* to (state, db, arg): double(x) = x * 2, emit() yields a and b and
\* returns true, emitOne() yields b and returns nothing
registeredFunctions(name, appState, arg) ==
    CASE name = "double" ->
             Value(CASE arg = "5" -> "10" [] arg = "6" -> "12"
                     [] OTHER -> "NaN")
      [] name = "emit" -> Generator(<<Act("a"), Act("b")>>, "true")
      [] OTHER -> Generator(<<Act("b")>>, Undef)

\* queueGeneratedActions queuing whatever the shadowing flag says
queueGeneratedActionsUnshadowed(generator, shadowing, c) ==
    [value |-> generator.v,
     ctx |-> IF c.actionQueue # 0
             THEN [c EXCEPT !.queues[c.actionQueue] = @ \o generator.yields,
                            !.queued = @ + Len(generator.yields)]
             ELSE c]

\* queueGeneratedActions (39-58): drains the generator; each yielded action
\* is pushed on actionQueue unless shadowing is on or there is no queue
queueGeneratedActions(generator, shadowing, c) ==
    [value |-> generator.v,
     ctx |-> IF ~shadowing /\ c.actionQueue # 0
             THEN [c EXCEPT !.queues[c.actionQueue] = @ \o generator.yields,
                            !.queued = @ + Len(generator.yields)]
             ELSE c]

\* wrapScriptFunction (97-114): the function the script calls
wrapScriptFunction(name, appState, shadowing, c, arg) ==
    LET returnValue == registeredFunctions(name, appState, arg)
    IN IF returnValue.t = "object"
       THEN queueGeneratedActions(returnValue, shadowing, c)
       ELSE [value |-> returnValue.v, ctx |-> c]

\* the scripts of the model; Undef stands for an absent script
Scripts == {Undef, "", "false", StringTrue, "n == 5", "double(n)",
            "emit()", "emitOne()", "n = 6", "ns.x = 1", "missing()"}
\* those that call a function returning a generator
GeneratorScripts == {"emit()", "emitOne()"}
\* those that only read variables and call registered functions
ReadOnlyScripts == {"false", StringTrue, "n == 5", "double(n)", "emit()",
                    "emitOne()"}

Bool(b) == IF b THEN "true" ELSE "false"

\* lines 231-253: the script runs as the body of a function whose
\* parameters are bound to the values of the store's entries and to the
\* wrapped functions.  Assigning to a parameter changes the local binding
\* only; a write through a namespace object changes the store; calling a
\* name that is not bound throws.
evalScript(script, variables, shadowing, c) ==
    LET plain(v) == [value |-> v, variables |-> variables, ctx |-> c,
                     threw |-> FALSE]
        call(name, arg) == wrapScriptFunction(name, c.state, shadowing, c,
                                              arg)
    IN CASE script = "false" -> plain("false")
         [] script = StringTrue -> plain(StringTrue)
         [] script = "n == 5" -> plain(Bool(variables.n = "5"))
         [] script = "double(n)" ->
                plain(call("double", variables.n).value)
         [] script = "emit()" ->
                [plain(call("emit", Undef).value) EXCEPT
                    !.ctx = call("emit", Undef).ctx]
         [] script = "emitOne()" ->
                [plain(call("emitOne", Undef).value) EXCEPT
                    !.ctx = call("emitOne", Undef).ctx]
         [] script = "n = 6" -> plain("6")
         [] script = "ns.x = 1" ->
                [plain("1") EXCEPT !.variables.ns.x = "1"]
         [] OTHER -> [plain(Undef) EXCEPT !.threw = TRUE]

\* runScript taking any truthy value of a condition for true
runScriptTruthy(script, variables, returns, shadowing, c) ==
    IF script = Undef \/ script = ""
    THEN [result |-> TRUE, value |-> Undef, variables |-> variables,
          ctx |-> c, threw |-> FALSE]
    ELSE LET e == evalScript(script, variables, shadowing, c)
             result == IF returns THEN e.value ELSE Undef
         IN [result |-> ~e.threw /\ Truthy(result), value |-> e.value,
             variables |-> e.variables, ctx |-> e.ctx, threw |-> e.threw]

\* runScript (218-257): result is what the call returns (meaningless when
\* it threw), value what the script's expression evaluated to
runScript(script, variables, returns, shadowing, c) ==
    IF script = Undef \/ script = ""
    THEN [result |-> TRUE, value |-> Undef, variables |-> variables,
          ctx |-> c, threw |-> FALSE]
    ELSE LET e == evalScript(script, variables, shadowing, c)
             result == IF returns THEN e.value ELSE Undef
         IN [result |-> ~e.threw /\ result = "true", value |-> e.value,
             variables |-> e.variables, ctx |-> e.ctx, threw |-> e.threw]

\* a finalize action dispatched whenever a creator was supplied
needsFinalizeEvenEmpty(queue, finalizeAction) == finalizeAction = "supplied"

\* line 87: a finalize action is dispatched after the queued ones
needsFinalize(queue, finalizeAction) ==
    Len(queue) > 0 /\ finalizeAction = "supplied"

\* no runScript call observed yet
NoRun == [script |-> Undef, returns |-> FALSE, shadowing |-> FALSE,
          result |-> FALSE, value |-> Undef, threw |-> FALSE, called |-> FALSE,
          actionQueue |-> 0, queuesBefore |-> <<>>, queuesAfter |-> <<>>,
          logBefore |-> <<>>, logAfter |-> <<>>,
          variablesBefore |-> ScriptStore("5", "0"),
          variablesAfter |-> ScriptStore("5", "0")]

\* the module as loaded: no context, no middleware created, nothing run
NoScriptContext ==
    [state |-> Undef, actionQueue |-> 0, queues |-> <<>>, calls |-> <<>>,
     log |-> <<>>, ids |-> 0, queued |-> 0, nested |-> 0,
     finalizeAction |-> "none",
     variables |-> ScriptStore("5", "0"), ended |-> "none",
     returned |-> NoResultYet, first |-> [queue |-> <<>>, action |-> Act("a")],
     last |-> NoRun, featureHandlers |-> [name \in Features |-> <<>>]]

\* node.template: the features of the node, in the order of its keys.
\* A node with the visit limitation has that feature first.
template(n) ==
    (IF onlyOnce(n) THEN <<"Visit_Limitation">> ELSE <<>>)
       \o (CASE n = "A" -> <<"Quest">>
             [] n = "B" -> <<"Mood", "Quest">>
             [] n = "C" -> <<"Quest", "Mood">>
             [] OTHER -> <<>>)

\* featureHandlers.get(key) (188): the handlers registered for the feature,
\* the empty sequence standing for undefined
HandlersOf(featureHandlers, key) ==
    IF key \in DOMAIN featureHandlers THEN featureHandlers[key] ELSE <<>>

\* the loop of OnNodeExecution from key k on (186-201): the handlers
\* called, in call order; a key without handlers ends the whole call
RECURSIVE OnNodeExecutionFrom(_, _, _, _)
OnNodeExecutionFrom(node, keys, k, featureHandlers) ==
    IF k > Len(keys) THEN <<>>
    ELSE LET handlers == HandlersOf(featureHandlers, keys[k])
         IN IF handlers = <<>> THEN <<>>
            ELSE [j \in 1..Len(handlers) |->
                     [node |-> node, feature |-> keys[k],
                      handler |-> handlers[j]]]
                 \o OnNodeExecutionFrom(node, keys, k + 1, featureHandlers)

\* OnNodeExecution(node, state) (177-202): the handler calls it makes.
\* The handlers of the model return nothing, or a generator drained while
\* no queue is set: either way the call changes nothing in script.ts
OnNodeExecution(node, featureHandlers) ==
    OnNodeExecutionFrom(node, template(node), 1, featureHandlers)

-----------------------------------------------------------------------------
(* The entry points *)

\* NullAdvancedFlowState (161-168); its variables object is the store vref
NullAdvancedFlowState(vref) ==
    [id |-> Null, last |-> Null, variables |-> vref, visits |-> EmptyVisits,
     branches |-> <<>>, turn |-> 0]

Idle == [kind |-> "idle", state |-> NullAdvancedFlowState(1), node |-> Undef]

NoResult == [state |-> Idle.state, node |-> NoNode, same |-> FALSE,
             branches |-> <<>>, done |-> FALSE]

\* the observations a call starts with; the counters of commits and the
\* turn each node was last stepped through at are kept across calls
StartObs(kind, input, branchIndex) ==
    [obs EXCEPT !.lastOp = kind, !.input = input, !.bi = branchIndex,
                !.retNode = Undef, !.same = FALSE, !.calls = 0, !.execs = 0,
                !.hooks = 0, !.threw = FALSE, !.committed = FALSE,
                !.killed = 0, !.result = NoResult, !.start = Null,
                !.initial = NullAdvancedFlowState(1),
                !.inputContent = EmptyStore, !.inputAfter = input,
                !.deadEnds = 0, !.invoked = <<>>]

\* refreshBranches keeping the store the walk left in the object it passed
refreshBranchesShadowed(state, branches) ==
    [state EXCEPT !.branches = branches, !.variables = iters[1].variables]

\* refreshBranches (591-606), once collectBranches has returned `branches`
refreshBranches(state, branches) ==
    [state EXCEPT !.branches = branches, !.variables = state.variables]

\* refreshBranches up to its call of collectBranches (596-603): the call
\* gets a copy of the state with shadowing on, and the state's visits
BeginRefresh(kind, state, node, h, o) ==
    LET its == <<[id |-> state.id, last |-> state.last,
                  variables |-> state.variables, shadowing |-> "true"]>>
    IN /\ stores' = h
       /\ iters' = its
       /\ stack' = <<EnterFrame(1, NoNode, FlowBranch(0, <<>>), 0, -1, h, its)>>
       /\ op' = [kind |-> kind, state |-> state, node |-> node]
       /\ obs' = [o EXCEPT !.calls = @ + EnterCalls(1, NoNode, its),
                           !.snap = h[state.variables]]

\* the VisitSet of the input state used as it is, without a copy
cloneVisitSetShared(visits) == [visits |-> visits, shared |-> TRUE]

\* lines 381-384: a new VisitSet object with copies of both maps
cloneVisitSet(visits) == [visits |-> visits, shared |-> FALSE]

\* the input state as its holder sees it after the commit: the fields of
\* the state object are never assigned, and its VisitSet shows the visits
\* of the commit only if the commit wrote to that very object
inputAfterCommit(state, copy, visits) ==
    [state EXCEPT !.visits = IF copy.shared THEN visits ELSE @]

\* a visit that sets the count to one instead of adding one to it
markVisitedOnce(visits, id, turn) ==
    [counts |-> Put(visits.counts, id, 1),
     indicies |-> Put(visits.indicies, id, turn)]

\* the visit recorded against the turn after the commit
markVisitedNextTurn(visits, id, turn) ==
    [counts |-> Put(visits.counts, id, Get(visits.counts, id, 0) + 1),
     indicies |-> Put(visits.indicies, id, turn + 1)]

\* lines 401-407: count the visit and record the turn
markVisited(visits, id, turn) ==
    [counts |-> Put(visits.counts, id, Get(visits.counts, id, 0) + 1),
     indicies |-> Put(visits.indicies, id, turn)]

\* the loop of lines 386-408 from step k of the path on; acc carries vars,
\* hasCloned, the store heap, the visits, the counts of execute() and
\* OnNodeExecution() calls, the state the commit was given and the handler
\* calls made, each with the store and visits of the state it was passed
\* and the store and visits the commit had come to by then
RECURSIVE executePath(_, _, _, _)
executePath(path, k, turn, acc) ==
    IF k > Len(path) THEN acc
    ELSE LET step == path[k]
             cloning == ~acc.hasCloned /\ needsShadow(step)
             c == IF cloning THEN cloneVariableStore(acc.stores, acc.vars)
                  ELSE [stores |-> acc.stores, ref |-> acc.vars]
             executed == [c.stores EXCEPT ![c.ref] = scriptEffect(step, @)]
             \* line 399: the handlers get the state the commit was given
             called == OnNodeExecution(step, scriptCtx.featureHandlers)
             calls == [j \in 1..Len(called) |->
                         [node |-> step, feature |-> called[j].feature,
                          handler |-> called[j].handler,
                          seenStore |-> executed[acc.state.variables],
                          seenVisits |-> acc.state.visits,
                          store |-> executed[c.ref],
                          visits |-> acc.visits]]
         IN executePath(path, k + 1, turn,
                [vars |-> c.ref, hasCloned |-> acc.hasCloned \/ cloning,
                 stores |-> executed,
                 visits |-> markVisited(acc.visits, step, turn),
                 execs |-> acc.execs + 1, hooks |-> acc.hooks + 1,
                 state |-> acc.state, invoked |-> acc.invoked \o calls])

\* the new state built without advancing the turn
newFlowStateSameTurn(state, path, variables, visits) ==
    [id |-> path[Len(path)],
     last |-> IF Len(path) > 1 THEN path[Len(path) - 1] ELSE state.id,
     branches |-> <<>>, variables |-> variables, visits |-> visits,
     turn |-> state.turn]

\* lines 410-434: the state at the end of the path, before its refresh
newFlowState(state, path, variables, visits) ==
    LET before == getObject(state.id)
        last == IF Len(path) > 1 THEN path[Len(path) - 1] ELSE before
    IN [id |-> path[Len(path)],
        last |-> IF last = NoNode THEN Undef ELSE last,
        branches |-> <<>>, variables |-> variables, visits |-> visits,
        turn |-> state.turn + 1]

\* lines 364-370: the index is out of bounds or there is no position
outOfBounds(state, branchIndex) ==
    \/ branchIndex < 0
    \/ branchIndex >= Len(state.branches)
    \/ state.id = Null

\* line 373: state.branches.find(x => x.index === branchIndex)
findBranch(state, branchIndex) ==
    LET hits == {k \in 1..Len(state.branches) :
                    state.branches[k].index = branchIndex}
    IN IF hits = {} THEN 0 ELSE CHOOSE k \in hits : \A j \in hits : k <= j

\* the early return taken for negative indices only
returnsInputNegativeOnly(state, branchIndex) == branchIndex < 0

\* lines 364-376: the call returns its input state and no node
returnsInput(state, branchIndex) ==
    outOfBounds(state, branchIndex) \/ findBranch(state, branchIndex) = 0

\* advancedNextFlowState (358-438) on `state`, whose store is in heap h
advancedNextFlowState(state, branchIndex, h, o) ==
    IF returnsInput(state, branchIndex)
    THEN /\ adv' = state
         /\ stores' = h
         /\ iters' = <<>>
         /\ stack' = <<>>
         /\ op' = Idle
         /\ obs' = [o EXCEPT !.retNode = Undef, !.same = TRUE]
    ELSE IF findBranch(state, branchIndex) = 0
    THEN \* branch.path of undefined: a TypeError
         /\ adv' = state
         /\ stores' = h
         /\ iters' = <<>>
         /\ stack' = <<>>
         /\ op' = Idle
         /\ obs' = [o EXCEPT !.threw = TRUE]
    ELSE LET branch == state.branches[findBranch(state, branchIndex)]
             copy == cloneVisitSet(state.visits)
             done == executePath(branch.path, 1, state.turn,
                         [vars |-> state.variables, hasCloned |-> FALSE,
                          stores |-> h, visits |-> copy.visits,
                          execs |-> 0, hooks |-> 0, state |-> state,
                          invoked |-> <<>>])
             new == newFlowState(state, branch.path, done.vars, done.visits)
         IN /\ adv' = adv
            /\ BeginRefresh("next", new, branch.path[Len(branch.path)],
                   done.stores,
                   [o EXCEPT !.execs = @ + done.execs,
                             !.hooks = @ + done.hooks,
                             !.invoked = done.invoked,
                             !.calls = @ + 1,
                             !.committed = TRUE,
                             !.inputAfter =
                                 inputAfterCommit(state, copy, done.visits),
                             !.commits = IF o.lastOp = "next" THEN @ + 1
                                         ELSE @,
                             !.stepTurn = [n \in Nodes |->
                                 IF \E k \in 1..Len(branch.path) :
                                        branch.path[k] = n
                                 THEN state.turn ELSE @[n]]])

\* the heap holding only the store of `state`, which becomes reference 1
OwnStore(state) == <<stores[state.variables]>>
Rebased(state) == [state EXCEPT !.variables = 1]

StartIds == {"A", "B", Unresolved}

\* advancedStartupFlowState (320-349) up to the refresh of line 334
Startup(start) ==
    /\ op.kind = "idle"
    /\ ~obs.started
    /\ LET initial == [id |-> start, last |-> Null, branches |-> <<>>,
                       variables |-> 1, visits |-> EmptyVisits, turn |-> 0]
       IN BeginRefresh("startup", initial, Undef, <<NewStoreContent>>,
              [StartObs("startup", adv, 0) EXCEPT !.calls = 1,
                                                  !.start = start])
    /\ UNCHANGED <<graph, adv, scriptCtx>>

\* advancedStartupFlowState from line 336 on, with the branches refreshed
StartupResume ==
    /\ op.kind = "startup"
    /\ Len(stack) = 1 /\ Top.pc = "ret"
    /\ LET initial == refreshBranches(op.state, Top.result)
           node == getObject(initial.id)
           o == [obs EXCEPT !.calls = @ + 1, !.started = TRUE,
                            !.startTurn = 0, !.startStepped = FALSE,
                            !.initial = initial]
       IN IF node = NoNode
          THEN /\ adv' = NullAdvancedFlowState(Len(stores) + 1)
               /\ stores' = Append(stores, EmptyStore)
               /\ iters' = <<>>
               /\ stack' = <<>>
               /\ op' = Idle
               /\ obs' = [o EXCEPT !.retNode = Undef]
          ELSE IF shouldStopAt(node)
          THEN /\ adv' = initial
               /\ UNCHANGED stores
               /\ iters' = <<>>
               /\ stack' = <<>>
               /\ op' = Idle
               /\ obs' = [o EXCEPT !.retNode = node]
          ELSE advancedNextFlowState(Rebased(initial), 0, OwnStore(initial),
                                     o)
    /\ UNCHANGED <<graph, scriptCtx>>

\* a call of advancedNextFlowState by the application
Next(branchIndex) ==
    /\ op.kind = "idle"
    /\ returnsInput(adv, branchIndex) \/ adv.turn < MaxTurn
    /\ IF returnsInput(adv, branchIndex)
       THEN advancedNextFlowState(adv, branchIndex, stores,
                                  StartObs("next", adv, branchIndex))
       ELSE advancedNextFlowState(Rebased(adv), branchIndex, OwnStore(adv),
                [StartObs("next", Rebased(adv), branchIndex)
                    EXCEPT !.inputContent = stores[adv.variables]])
    /\ UNCHANGED <<graph, scriptCtx>>

\* advancedNextFlowState returns the refreshed state and the node (437)
NextDone ==
    /\ op.kind = "next"
    /\ Len(stack) = 1 /\ Top.pc = "ret"
    /\ adv' = refreshBranches(op.state, Top.result)
    /\ iters' = <<>>
    /\ stack' = <<>>
    /\ op' = Idle
    /\ obs' = [obs EXCEPT !.retNode = op.node,
                          !.startTurn = IF obs.lastOp = "startup"
                                        THEN op.state.turn ELSE @,
                          !.startStepped = IF obs.lastOp = "startup"
                                           THEN TRUE ELSE @]
    /\ UNCHANGED <<graph, stores, scriptCtx>>

\* a call of refreshBranches by the application
Refresh ==
    /\ op.kind = "idle"
    /\ BeginRefresh("refresh", Rebased(adv), Undef, OwnStore(adv),
                    StartObs("refresh", Rebased(adv), 0))
    /\ UNCHANGED <<graph, adv, scriptCtx>>

RefreshDone ==
    /\ op.kind = "refresh"
    /\ Len(stack) = 1 /\ Top.pc = "ret"
    /\ adv' = refreshBranches(op.state, Top.result)
    /\ iters' = <<>>
    /\ stack' = <<>>
    /\ op' = Idle
    /\ UNCHANGED <<graph, stores, obs, scriptCtx>>

-----------------------------------------------------------------------------

Init ==
    /\ graph \in Graphs
    /\ stores = <<EmptyStore>>
    /\ iters = <<>>
    /\ stack = <<>>
    /\ adv = NullAdvancedFlowState(1)
    /\ op = Idle
    /\ obs = [lastOp |-> "none", input |-> NullAdvancedFlowState(1), bi |-> 0,
              retNode |-> Undef, same |-> FALSE, calls |-> 0, execs |-> 0,
              hooks |-> 0, threw |-> FALSE, committed |-> FALSE,
              snap |-> EmptyStore, started |-> FALSE, startTurn |-> 0,
              startStepped |-> FALSE, commits |-> 0,
              stepTurn |-> [n \in Nodes |-> -1], killed |-> 0,
              result |-> NoResult, start |-> Null,
              initial |-> NullAdvancedFlowState(1),
              inputContent |-> EmptyStore,
              inputAfter |-> NullAdvancedFlowState(1), deadEnds |-> 0,
              invoked |-> <<>>]
    /\ scriptCtx = NoScriptContext

Step ==
    \/ \E start \in StartIds : Startup(start)
    \/ StartupResume
    \/ \E branchIndex \in -1..Len(adv.branches) : Next(branchIndex)
    \/ NextDone
    \/ Refresh
    \/ RefreshDone
    \/ CB_Walk
    \/ CB_Fork
    \/ CB_Return

Spec == Init /\ [][Step]_vars

-----------------------------------------------------------------------------
(* Properties *)

IsIdle == op.kind = "idle"
Paths(branches) == [k \in 1..Len(branches) |-> branches[k].path]
Count(visits, n) == Get(visits.counts, n, 0)

\* C1: a refresh (collectBranches in shadow mode) never changes the content
\* of the VariableStore of the state it refreshes: while the walk runs and
\* once it is done, that store holds what it held when the refresh began,
\* and the refreshed state still refers to that same store.
C1_ShadowKeepsCommittedStore ==
    /\ ~IsIdle => stores[op.state.variables] = obs.snap
    /\ (IsIdle /\ obs.lastOp = "refresh") =>
          /\ adv.variables = obs.input.variables
          /\ stores[adv.variables] = obs.snap
    /\ (IsIdle /\ obs.lastOp \in {"next", "startup"} /\ obs.committed) =>
          stores[adv.variables] = obs.snap

\* a refresh has finished during which a shadow store was written
C1_Witness ==
    /\ IsIdle /\ obs.lastOp = "refresh"
    /\ \E k \in 1..Len(stores) : stores[k] # obs.snap

\* C2: at a fork, the store a sibling branch starts in is the store as it
\* was when the fork was reached: no write made while walking an earlier
\* sibling is visible in it.
C2_SiblingsStartFromForkStore ==
    \A k \in 1..Len(stack) :
        stack[k].pc = "fork" =>
            stores[iters[stack[k].iter].variables] = stack[k].snap

\* C3: a node with Visit_Limitation.Only_Once and a count >= 1 in the
\* VisitSet passed to collectBranches is on the path of no branch the call
\* (or any of its recursive calls) returns, nor of the cached branches.
C3_LimitedNodeOnNoPath ==
    /\ \A k \in 1..Len(stack) : \A b \in 1..Len(stack[k].result) :
          \A j \in 1..Len(stack[k].result[b].path) :
             LET n == stack[k].result[b].path[j]
             IN ~(onlyOnce(n) /\ Count(op.state.visits, n) >= 1)
    /\ IsIdle =>
          \A b \in 1..Len(adv.branches) :
             \A j \in 1..Len(adv.branches[b].path) :
                LET n == adv.branches[b].path[j]
                IN ~(onlyOnce(n) /\ Count(adv.visits, n) >= 1)

\* a walk was cut at a visit-limited node and other branches were returned
C3_Witness ==
    /\ IsIdle /\ obs.killed > 0 /\ adv.branches # <<>>
    /\ \E n \in Nodes : onlyOnce(n) /\ Count(adv.visits, n) >= 1

\* the chain A -> B -> C of C4 with both edges open, B and C in the
\* stop-set, the handler answering StopAndContinue for B and NormalStop for C
C4_Chain ==
    /\ graph.targets["A"] = <<"B">> /\ graph.targets["B"] = <<"C">>
    /\ graph.guard \cap {"A", "B"} = {}
    /\ {"B", "C"} \subseteq graph.cfg.stop
    /\ graph.cfg.handler
    /\ graph.cfg.answer["B"] = StopAndContinue
    /\ graph.cfg.answer["C"] = NormalStop

\* C4: on that chain, with no visit limitation in force, collectBranches
\* from A returns exactly the branch [B] with index 0 followed by the
\* branch [B, C] with index 1.
C4_StopAndContinueChain ==
    (/\ C4_Chain
     /\ Len(stack) = 1 /\ Top.pc = "ret"
     /\ op.state.id = "A"
     /\ ~VisitLimited("B", op.state.visits)
     /\ ~VisitLimited("C", op.state.visits))
    => Top.result = <<FlowBranch(0, <<"B">>), FlowBranch(1, <<"B", "C">>)>>

C4_Witness ==
    /\ C4_Chain
    /\ Len(stack) = 1 /\ Top.pc = "ret"
    /\ op.state.id = "A"
    /\ Len(Top.result) = 2

\* C5 as stated: after N commits made from the state startup returned, the
\* turn is N.
C5_TurnIsCommitCount ==
    (IsIdle /\ obs.started) => adv.turn = obs.commits

\* C5 amended: the turn is N plus the turn of the state startup returned,
\* which is 1 when startup made its own step along branch 0 and 0 when it
\* returned without stepping.
C5_TurnIsStartTurnPlusCommits ==
    (IsIdle /\ obs.started) =>
        /\ adv.turn = obs.startTurn + obs.commits
        /\ obs.startTurn = IF obs.startStepped THEN 1 ELSE 0

C5_Witness ==
    /\ IsIdle /\ obs.started /\ obs.startStepped
    /\ obs.commits >= 2

\* C6: for every node in visits.indicies the recorded index is the turn of
\* the state from which the latest commit through that node was made, so
\* it is below the turn of the state holding it; nodes never stepped
\* through have no index.
C6_IndexIsPreCommitTurn ==
    IsIdle =>
        \A n \in Nodes :
            IF n \in DOMAIN adv.visits.indicies
            THEN /\ adv.visits.indicies[n] = obs.stepTurn[n]
                 /\ adv.visits.indicies[n] < adv.turn
            ELSE obs.stepTurn[n] = -1

\* some node keeps the index of an earlier turn after a later commit
C6_Witness ==
    /\ IsIdle
    /\ \E n \in DOMAIN adv.visits.indicies :
          adv.visits.indicies[n] + 1 < adv.turn
    /\ \E n \in DOMAIN adv.visits.indicies :
          adv.visits.indicies[n] + 1 = adv.turn

\* the branch indices C7 is about
C7_BadIndex(state, branchIndex) ==
    \/ branchIndex < 0
    \/ branchIndex >= Len(state.branches)
    \/ \A k \in 1..Len(state.branches) : state.branches[k].index # branchIndex
    \/ state.id = Null

\* C7: advancedNextFlowState with such an index returns its input state
\* and no node, executes no script, calls no feature hook, leaves the
\* visits and the turn alone and does not throw.
C7_BadIndexIsNoOp ==
    (IsIdle /\ obs.lastOp = "next" /\ C7_BadIndex(obs.input, obs.bi)) =>
        /\ adv = obs.input
        /\ obs.same
        /\ obs.retNode = Undef
        /\ obs.execs = 0 /\ obs.hooks = 0
        /\ ~obs.committed
        /\ ~obs.threw

\* an index past the end was tried on a state that has branches
C7_Witness ==
    /\ IsIdle /\ obs.lastOp = "next"
    /\ obs.bi >= Len(obs.input.branches)
    /\ obs.input.branches # <<>>
    /\ obs.same

\* C10: a refresh of a state whose branches came from a refresh yields the
\* same number of branches with the same paths in the same order.
C10_RefreshIsIdempotent ==
    (IsIdle /\ obs.lastOp = "refresh") =>
        Paths(adv.branches) = Paths(obs.input.branches)

\* a second refresh that walked scripts and returned several branches
C10_Witness ==
    /\ IsIdle /\ obs.lastOp = "refresh"
    /\ Len(adv.branches) >= 2
    /\ Len(stores) >= 2

-----------------------------------------------------------------------------
(* Direct calls of basicNextFlowState and collectBranches by the           *)
(* application, on FlowStates of its own making: one call per behaviour.   *)

DirectGraphs == {g \in Graphs : /\ g.guard \in {{}, {"A"}}
                                /\ g.onlyOnce = {"B"}
                                /\ g.cfg.handler
                                /\ g.cfg.answer["D"] = NormalStop}

\* the store contents a FlowState with this id is given
InputContents(id) ==
    {StoreOf(0), StoreOf(1)} \cup (IF id = Null THEN {EmptyStore} ELSE {})

InputVisits == {EmptyVisits,
                [counts |-> Put(EmptyMap, "B", 1),
                 indicies |-> Put(EmptyMap, "B", 0)]}

InputState(id, last, shadowing) ==
    [id |-> id, last |-> last, variables |-> 1, shadowing |-> shadowing]

\* basicNextFlowState(db, state, branchIndex)
BasicCall(id, last, shadowing, content, branchIndex) ==
    /\ IsIdle /\ obs.lastOp = "none"
    /\ LET state == InputState(id, last, shadowing)
           r == basicNextFlowState(state, branchIndex, <<content>>)
       IN /\ stores' = r.stores
          /\ obs' = [StartObs("basic", state, branchIndex) EXCEPT
                        !.snap = content, !.calls = r.calls,
                        !.result = [state |-> r.state, node |-> r.node,
                                    same |-> r.same, branches |-> <<>>,
                                    done |-> TRUE]]
    /\ UNCHANGED <<graph, iters, stack, adv, op, scriptCtx>>

\* collectBranches(db, iter, config, visits): the caller's object is iters[1]
CollectCall(id, shadowing, content, visits) ==
    /\ IsIdle /\ obs.lastOp = "none"
    /\ LET state == InputState(id, Null, shadowing)
           its == <<state>>
       IN /\ stores' = <<content>>
          /\ iters' = its
          /\ stack' = <<EnterFrame(1, NoNode, FlowBranch(0, <<>>), 0, -1,
                                   <<content>>, its)>>
          /\ op' = [kind |-> "collect",
                    state |-> [NullAdvancedFlowState(1) EXCEPT
                                  !.id = id, !.visits = visits],
                    node |-> Undef]
          /\ obs' = [StartObs("collect", state, 0) EXCEPT
                        !.snap = content,
                        !.calls = EnterCalls(1, NoNode, its)]
    /\ UNCHANGED <<graph, adv, scriptCtx>>

CollectDone ==
    /\ op.kind = "collect"
    /\ Len(stack) = 1 /\ Top.pc = "ret"
    /\ stack' = <<>>
    /\ op' = Idle
    /\ obs' = [obs EXCEPT !.result = [NoResult EXCEPT
                             !.branches = Top.result, !.done = TRUE]]
    /\ UNCHANGED <<graph, stores, iters, adv, scriptCtx>>

InitDirect == Init /\ graph \in DirectGraphs

StepDirect ==
    \/ \E id \in Ids \cup {Null}, last \in {Null, "A"},
          shadowing \in {Undef, "true"}, branchIndex \in -1..2 :
          \E content \in InputContents(id) :
             BasicCall(id, last, shadowing, content, branchIndex)
    \/ \E id \in Ids \cup {Null}, shadowing \in {Undef, "true"},
          visits \in InputVisits :
          \E content \in InputContents(id) :
             CollectCall(id, shadowing, content, visits)
    \/ CollectDone
    \/ CB_Walk
    \/ CB_Fork
    \/ CB_Return

SpecDirect == InitDirect /\ [][StepDirect]_vars

\* C8: for a FlowState with a null id, basicNextFlowState returns no node
\* and a state whose id is null, collectBranches returns no branch (its
\* call is over at once), and neither has called the database.
C8_NullIdTouchesNothing ==
    /\ (obs.lastOp = "basic" /\ obs.input.id = Null) =>
          /\ obs.result.node = NoNode
          /\ obs.result.state.id = Null
          /\ obs.calls = 0
    /\ (obs.lastOp = "collect" /\ obs.input.id = Null) =>
          /\ obs.calls = 0
          /\ \A k \in 1..Len(stack) :
                stack[k].pc = "ret" /\ stack[k].result = <<>>
          /\ obs.result.done => obs.result.branches = <<>>

\* basicNextFlowState was called on a state without id that still had a
\* last node and variables
C8_Witness ==
    /\ obs.lastOp = "basic" /\ obs.result.done
    /\ obs.input.id = Null /\ obs.input.last # Null
    /\ obs.snap = StoreOf(1)

\* the three terminal cases of C9: no id, an id that resolves to no node,
\* a node without target for the branch index
C9_NoId == obs.input.id = Null
C9_NoNode == obs.input.id # Null /\ getObject(obs.input.id) = NoNode
C9_NoTarget ==
    /\ getObject(obs.input.id) # NoNode
    /\ nextNode(getObject(obs.input.id), obs.snap, obs.bi) = NoNode

\* the reset state: null id, null last, an empty variable store
C9_IsReset(state) ==
    /\ state.id = Null
    /\ state.last = Null
    /\ stores[state.variables] = EmptyStore

\* C9 as stated: in each of the three terminal cases basicNextFlowState
\* yields the reset state and no node.
C9_TerminalYieldsReset ==
    (obs.lastOp = "basic" /\ (C9_NoId \/ C9_NoNode \/ C9_NoTarget)) =>
        /\ obs.result.node = NoNode
        /\ C9_IsReset(obs.result.state)

\* C9 amended: when the id does not resolve or the node has no target for
\* the branch index, the result is no node and a new reset state (null id,
\* null last, a new empty store, the input's shadowing flag); when the
\* input has no id, the result is no node and the input state itself, with
\* its last and variables as they were.
C9_TerminalCases ==
    obs.lastOp = "basic" =>
        /\ (C9_NoNode \/ C9_NoTarget) =>
              /\ obs.result.node = NoNode
              /\ C9_IsReset(obs.result.state)
              /\ ~obs.result.same
              /\ obs.result.state.variables # obs.input.variables
              /\ obs.result.state.shadowing = obs.input.shadowing
        /\ C9_NoId =>
              /\ obs.result.node = NoNode
              /\ obs.result.same
              /\ obs.result.state = obs.input
              /\ stores[obs.input.variables] = obs.snap

\* a resolved node had no target for the index, on a state with a last node
C9_Witness ==
    /\ obs.lastOp = "basic" /\ obs.result.done
    /\ C9_NoTarget
    /\ obs.input.last # Null
    /\ obs.bi >= 0

-----------------------------------------------------------------------------
(* Startup, termination, branch indices and frame effects *)

\* how often node n occurs on a path
Occurrences(path, n) == Cardinality({k \in 1..Len(path) : path[k] = n})

\* the branch of the refreshed initial state that startup follows
C11_Branch == obs.initial.branches[1]

\* C11: advancedStartupFlowState has three outcomes.  A start id that does
\* not resolve yields the null state (null id, turn 0, no branches, empty
\* visits) and no node.  A start node in the stop-set yields the refreshed
\* initial state at start (turn 0, empty visits) and the start node, with
\* no node executed or visited.  Any other start yields what one
\* advancedNextFlowState step along branch 0 of the refreshed initial state
\* yields: that state and no node when it has no branch, else the state at
\* the end of the branch's path, at turn 1, with the path's nodes executed
\* and visited at turn 0, and the node at the end of the path.
C11_StartupOutcomes ==
    (IsIdle /\ obs.lastOp = "startup") =>
        IF getObject(obs.start) = NoNode
        THEN /\ adv.id = Null /\ adv.turn = 0 /\ adv.branches = <<>>
             /\ adv.visits = EmptyVisits
             /\ obs.retNode = Undef
             /\ obs.execs = 0
        ELSE IF obs.start \in graph.cfg.stop
        THEN /\ adv = obs.initial
             /\ adv.id = obs.start /\ adv.turn = 0
             /\ adv.visits = EmptyVisits
             /\ obs.retNode = obs.start
             /\ obs.execs = 0 /\ obs.hooks = 0
             /\ ~obs.committed
        ELSE IF obs.initial.branches = <<>>
        THEN /\ adv.id = obs.start /\ adv.turn = 0 /\ adv.branches = <<>>
             /\ adv.visits = EmptyVisits
             /\ obs.retNode = Undef
             /\ obs.execs = 0
        ELSE /\ C11_Branch.index = 0
             /\ adv.id = C11_Branch.path[Len(C11_Branch.path)]
             /\ adv.turn = 1
             /\ obs.retNode = adv.id
             /\ obs.execs = Len(C11_Branch.path)
             /\ \A n \in Nodes :
                   /\ Count(adv.visits, n) = Occurrences(C11_Branch.path, n)
                   /\ Occurrences(C11_Branch.path, n) > 0 =>
                         Get(adv.visits.indicies, n, -1) = 0

\* a startup from a node outside the stop-set stepped along a branch of
\* two nodes or more
C11_Witness ==
    /\ IsIdle /\ obs.lastOp = "startup"
    /\ getObject(obs.start) # NoNode
    /\ obs.start \notin graph.cfg.stop
    /\ obs.initial.branches # <<>>
    /\ Len(C11_Branch.path) >= 2
    /\ adv.turn = 1

\* a startup at a node of the stop-set that has branches
C11_WitnessStop ==
    /\ IsIdle /\ obs.lastOp = "startup"
    /\ obs.start \in graph.cfg.stop
    /\ adv.branches # <<>>

\* the graph is a two-node cycle between A and B, neither in the stop-set,
\* neither visit limited, neither with its branch behind a condition
C12_Cycle ==
    /\ graph.targets["A"] = <<"B">> /\ graph.targets["B"] = <<"A">>
    /\ graph.cfg.stop \cap {"A", "B"} = {}
    /\ graph.onlyOnce \cap {"A", "B"} = {}
    /\ graph.guard \cap {"A", "B"} = {}

\* C12: on such a cycle a collectBranches call started at A or B never
\* returns: no state is reached in which the outermost call has completed.
C12_CycleNeverReturns ==
    (C12_Cycle /\ ~IsIdle /\ op.state.id \in {"A", "B"}) =>
        /\ stack # <<>>
        /\ ~(Len(stack) = 1 /\ Top.pc = "ret")

\* the walk has gone round the cycle and is still in its loop
C12_Witness ==
    /\ C12_Cycle /\ ~IsIdle /\ op.state.id \in {"A", "B"}
    /\ Len(stack) = 1 /\ Walking(Top)
    /\ Len(Top.path) >= 3
    /\ Top.path[1] = Top.path[3]

\* the indices of a branch list run from `from` upwards in list order
Contiguous(branches, from) ==
    \A k \in 1..Len(branches) : branches[k].index = from + k - 1

\* C17: the branch list a collectBranches call returns carries consecutive
\* indices in list order, starting at the index of the branch it was given,
\* which is 0 for a top-level call; so the branches cache of a state
\* carries 0..n-1 and advancedNextFlowState finds a cached branch for every
\* branchIndex from 0 to n-1.
C17_IndicesAreContiguous ==
    /\ \A k \in 1..Len(stack) :
          stack[k].pc = "ret" => Contiguous(stack[k].result, stack[k].bidx)
    /\ (Len(stack) = 1 /\ Top.pc = "ret") => Contiguous(Top.result, 0)
    /\ IsIdle =>
          /\ Contiguous(adv.branches, 0)
          /\ \A bi \in 0..(Len(adv.branches) - 1) : findBranch(adv, bi) # 0

\* a refresh through nested forks with a dead end left three branches or
\* more, one of them from a StopAndContinue
C17_Witness ==
    /\ IsIdle
    /\ Len(adv.branches) >= 3
    /\ \E k \in 1..(Len(adv.branches) - 1) :
          /\ Len(adv.branches[k].path) < Len(adv.branches[k + 1].path)
          /\ SubSeq(adv.branches[k + 1].path, 1, Len(adv.branches[k].path))
                = adv.branches[k].path

\* every branch of the list has a non-empty path ending in the stop-set
C18_EndAtStops(branches) ==
    \A k \in 1..Len(branches) :
        /\ branches[k].path # <<>>
        /\ branches[k].path[Len(branches[k].path)] \in graph.cfg.stop

\* in every call and in every branches cache the branches end at stops, and
\* a call that ran into a missing node returns no branch
C18_Branches ==
    /\ \A k \in 1..Len(stack) :
          /\ C18_EndAtStops(stack[k].result)
          /\ (stack[k].pc = "ret" /\ stack[k].node = NoNode) =>
                stack[k].result = <<>>
    /\ C18_EndAtStops(adv.branches)

\* a call that returns leaves the branches its caller already holds in
\* place, in front of whatever it returns
C18_ReturnKeeps ==
    (Len(stack) >= 2 /\ Len(stack') = Len(stack) - 1) =>
        LET held == stack[Len(stack) - 1].result
            now == stack'[Len(stack')].result
        IN /\ Len(now) = Len(held) + Len(Top.result)
           /\ SubSeq(now, 1, Len(held)) = held

\* C18: every branch collectBranches returns has a non-empty path whose last
\* node is in the stop-set; a walk that reaches a missing node before a stop
\* returns no branch, and its return removes none of the branches collected
\* by sibling forks or by an earlier StopAndContinue of the same walk.
C18_DeadEndsDropOnlyTheirBranch == []C18_Branches /\ [][C18_ReturnKeeps]_vars

\* a refresh met a dead end and still returned the branches of the siblings
C18_Witness ==
    /\ IsIdle /\ obs.lastOp \in {"startup", "next", "refresh"}
    /\ obs.deadEnds = 1
    /\ adv.branches # <<>>

\* C19: a commit of advancedNextFlowState leaves its input state as it was:
\* the content of the input's variable store, its visits (counts and
\* indicies), its branches and its turn are the same during the refresh
\* that ends the call and after the call as they were before it.
C19_CommitKeepsInput ==
    (obs.lastOp = "next" /\ obs.committed) =>
        /\ stores[obs.input.variables] = obs.inputContent
        /\ obs.inputAfter = obs.input
        /\ obs.inputAfter.visits = obs.input.visits
        /\ obs.inputAfter.branches = obs.input.branches
        /\ obs.inputAfter.turn = obs.input.turn

\* a commit ran a script on a clone of the store and recorded new visits
C19_Witness ==
    /\ IsIdle /\ obs.lastOp = "next" /\ obs.committed
    /\ adv.variables # obs.input.variables
    /\ stores[adv.variables] # obs.inputContent
    /\ adv.visits # obs.input.visits
    /\ obs.input.visits # EmptyVisits

\* C20: during and after a collectBranches call the FlowState object the
\* caller passed in has the id, last, shadowing flag and variables
\* reference it had when the call was made.
C20_CallerStateKept ==
    obs.lastOp = "collect" => iters[1] = obs.input

-----------------------------------------------------------------------------
(* Script evaluation and the dispatch middleware in use: the application   *)
(* creates the middleware, dispatches actions through it, and the reducers *)
(* it runs (or the application itself) evaluate scripts.  One middleware   *)
(* call is a frame of scriptCtx.calls: its action, its local queue, its    *)
(* position, the index of its dispatch loop and the result of next.        *)

ScriptTop == scriptCtx.calls[Len(scriptCtx.calls)]
InFlight == scriptCtx.calls # <<>>
QueueOf(f) == scriptCtx.queues[f.queue]

\* lines 78-79 written to put back the queue of the call around this one
restoreContext(c) ==
    [c EXCEPT !.actionQueue = IF Len(c.calls) >= 2
                              THEN c.calls[Len(c.calls) - 1].queue ELSE 0,
              !.state = IF Len(c.calls) >= 2 THEN Snapshot ELSE Undef]

\* lines 78-79: actionQueue = undefined; state = undefined
clearContext(c) == [c EXCEPT !.actionQueue = 0, !.state = Undef]

\* lines 68-72: a middleware call for `action` begins in context c
EnterMiddleware(c, action) ==
    LET ref == Len(c.queues) + 1
    IN [c EXCEPT !.queues = Append(@, <<>>),
                 !.actionQueue = ref,
                 !.state = Snapshot,
                 !.ids = @ + 1,
                 !.calls = Append(@, [id |-> c.ids + 1, action |-> action,
                                      queue |-> ref, pc |-> "next", i |-> 0,
                                      result |-> NoResultYet,
                                      cleared |-> FALSE, atNested |-> <<>>,
                                      lost |-> 0])]

\* the top call replaced by f; what the last runScript did is observed
\* until the next step of a middleware call
SetScriptTop(c, f) == [c EXCEPT !.calls[Len(c.calls)] = f, !.last = NoRun]

\* createScriptDispatchMiddleware(finalizeAction), line 66
CreateMiddleware(finalizeAction) ==
    /\ scriptCtx.finalizeAction = "none"
    /\ scriptCtx' = [scriptCtx EXCEPT !.finalizeAction = finalizeAction]
    /\ UNCHANGED <<graph, stores, iters, stack, adv, op, obs>>

\* the application dispatches an action: the middleware is called (68-72)
Dispatch(action) ==
    /\ ~InFlight
    /\ scriptCtx.finalizeAction # "none"
    /\ scriptCtx' = EnterMiddleware(
           [scriptCtx EXCEPT !.queues = <<>>, !.log = <<>>, !.ids = 0,
                             !.queued = 0, !.nested = 0,
                             !.ended = "running",
                             !.returned = NoResultYet,
                             !.first = NoScriptContext.first,
                             !.last = NoRun],
           action)
    /\ UNCHANGED <<graph, stores, iters, stack, adv, op, obs>>

\* the actions a script's generator yields that go to no queue although
\* shadowing is off, because no queue is set
LostYields(script, shadowing, c) ==
    IF script \in GeneratorScripts /\ ~shadowing /\ c.actionQueue = 0
    THEN Len(registeredFunctions(
                IF script = "emit()" THEN "emit" ELSE "emitOne",
                c.state, Undef).yields)
    ELSE 0

\* runScript(script, variables, db, returns, shadowing), called by a
\* reducer inside next(action) or by the application outside any dispatch.
\* An exception leaves next(action) and every middleware call in progress:
\* none of them catches it.
RunScript(script, returns, shadowing) ==
    /\ IF InFlight THEN ScriptTop.pc = "next" ELSE TRUE
    /\ LET r == runScript(script, scriptCtx.variables, returns, shadowing,
                          scriptCtx)
       IN /\ r.ctx.queued <= MaxQueued
          /\ IF InFlight
             THEN ScriptTop.lost + LostYields(script, shadowing, scriptCtx)
                     <= MaxQueued
             ELSE TRUE
          /\ scriptCtx' =
               [r.ctx EXCEPT
                  !.variables = r.variables,
                  !.calls = IF r.threw THEN <<>>
                            ELSE IF InFlight
                            THEN [@ EXCEPT ![Len(@)].lost =
                                     @ + LostYields(script, shadowing,
                                                    scriptCtx)]
                            ELSE @,
                  !.ended = IF r.threw /\ InFlight THEN "threw" ELSE @,
                  !.last = [script |-> script, returns |-> returns,
                            shadowing |-> shadowing, result |-> r.result,
                            value |-> r.value, threw |-> r.threw,
                            called |-> TRUE,
                            actionQueue |-> scriptCtx.actionQueue,
                            queuesBefore |-> scriptCtx.queues,
                            queuesAfter |-> r.ctx.queues,
                            logBefore |-> scriptCtx.log,
                            logAfter |-> r.ctx.log,
                            variablesBefore |-> scriptCtx.variables,
                            variablesAfter |-> r.variables]]
    /\ UNCHANGED <<graph, stores, iters, stack, adv, op, obs>>

\* lines 75-79: next(action) returns; the queue and the state are cleared
NextReturns ==
    /\ InFlight
    /\ ScriptTop.pc = "next"
    /\ scriptCtx' =
         clearContext(SetScriptTop(scriptCtx,
              [ScriptTop EXCEPT !.pc = "dispatch",
                                !.result = NextResult(ScriptTop.action)]))
    /\ UNCHANGED <<graph, stores, iters, stack, adv, op, obs>>

\* lines 82-84: storeApi.dispatch of the next queued action, which calls
\* the middleware again
DispatchQueued ==
    /\ InFlight
    /\ ScriptTop.pc = "dispatch"
    /\ ScriptTop.i < Len(QueueOf(ScriptTop))
    /\ LET action == QueueOf(ScriptTop)[ScriptTop.i + 1]
           c == [SetScriptTop(scriptCtx,
                              [ScriptTop EXCEPT !.pc = "dispatching"])
                   EXCEPT !.log = Append(@, [by |-> ScriptTop.id,
                                             action |-> action])]
       IN scriptCtx' = EnterMiddleware(c, action)
    /\ UNCHANGED <<graph, stores, iters, stack, adv, op, obs>>

\* lines 87-89: after the loop, the finalize action is dispatched or not
DispatchFinalize ==
    /\ InFlight
    /\ ScriptTop.pc = "dispatch"
    /\ ScriptTop.i = Len(QueueOf(ScriptTop))
    /\ IF needsFinalize(QueueOf(ScriptTop), scriptCtx.finalizeAction)
       THEN LET action == Finalize(ScriptTop.action)
                c == [SetScriptTop(scriptCtx,
                                   [ScriptTop EXCEPT !.pc = "finalizing"])
                        EXCEPT !.log = Append(@, [by |-> ScriptTop.id,
                                                  action |-> action])]
            IN scriptCtx' = EnterMiddleware(c, action)
       ELSE scriptCtx' = SetScriptTop(scriptCtx,
                                      [ScriptTop EXCEPT !.pc = "return"])
    /\ UNCHANGED <<graph, stores, iters, stack, adv, op, obs>>

\* line 92: the middleware call returns the result of next(action), to
\* the storeApi.dispatch of the call around it or to the application
MiddlewareReturns ==
    /\ InFlight
    /\ ScriptTop.pc = "return"
    /\ LET rest == SubSeq(scriptCtx.calls, 1, Len(scriptCtx.calls) - 1)
       IN IF rest = <<>>
          THEN scriptCtx' =
                 [scriptCtx EXCEPT !.calls = <<>>, !.ended = "returned",
                                   !.last = NoRun,
                                   !.returned = ScriptTop.result,
                                   !.first = [queue |-> QueueOf(ScriptTop),
                                              action |-> ScriptTop.action]]
          ELSE LET p == rest[Len(rest)]
               IN scriptCtx' = [scriptCtx EXCEPT !.last = NoRun, !.calls =
                     [rest EXCEPT ![Len(rest)] =
                        IF p.pc = "dispatching"
                        THEN [p EXCEPT !.pc = "dispatch", !.i = @ + 1]
                        ELSE IF p.pc = "nested"
                        THEN [p EXCEPT !.pc = "next", !.cleared = TRUE]
                        ELSE [p EXCEPT !.pc = "return"]]]
    /\ UNCHANGED <<graph, stores, iters, stack, adv, op, obs>>

\* store.dispatch(action) called while next(action) of the innermost
\* middleware call is running (by a native function or by a middleware
\* further down the chain): the middleware is entered again (68-72)
DispatchInsideNext(action) ==
    /\ InFlight
    /\ ScriptTop.pc = "next"
    /\ scriptCtx.nested < MaxNested
    /\ scriptCtx' = EnterMiddleware(
           [SetScriptTop(scriptCtx,
                [ScriptTop EXCEPT !.pc = "nested",
                                  !.atNested = QueueOf(ScriptTop)])
              EXCEPT !.nested = @ + 1],
           action)
    /\ UNCHANGED <<graph, stores, iters, stack, adv, op, obs>>

\* the graph plays no part in script.ts
InitScript ==
    /\ Init
    /\ graph.targets = Tgt(<<"B">>, <<"C">>, <<>>, <<>>)
    /\ graph.script = {} /\ graph.guard = {} /\ graph.onlyOnce = {}
    /\ graph.cfg.stop = {}

StepScript ==
    \/ \E finalizeAction \in {"supplied", "absent"} :
          CreateMiddleware(finalizeAction)
    \/ \E action \in Actions : Dispatch(action)
    \/ \E script \in Scripts, returns \in BOOLEAN, shadowing \in BOOLEAN :
          RunScript(script, returns, shadowing)
    \/ NextReturns
    \/ DispatchQueued
    \/ DispatchFinalize
    \/ MiddlewareReturns

SpecScript == InitScript /\ [][StepScript]_vars

\* the actions middleware call `id` has passed to storeApi.dispatch, in
\* the order of the calls
Dispatched(id) ==
    LET By(e) == e.by = id
        mine == SelectSeq(scriptCtx.log, By)
    IN [k \in 1..Len(mine) |-> mine[k].action]

\* C13: when a script calls a native function that returns a sequence of
\* deferred actions, the sequence's final value is what the call yields and
\* nothing is dispatched by the evaluation; in shadow mode every queue is
\* left as it was; in non-shadow mode with an active queue the yielded
\* actions are appended to that queue, each once, in yield order, and the
\* other queues are left as they were.
C13_DeferredActionsAreQueued ==
    LET l == scriptCtx.last
        generator == registeredFunctions(
                        IF l.script = "emit()" THEN "emit" ELSE "emitOne",
                        Undef, Undef)
    IN (l.called /\ l.script \in GeneratorScripts) =>
          /\ ~l.threw
          /\ l.value = generator.v
          /\ l.logAfter = l.logBefore
          /\ l.shadowing => l.queuesAfter = l.queuesBefore
          /\ (~l.shadowing /\ l.actionQueue # 0) =>
                l.queuesAfter =
                   [l.queuesBefore EXCEPT ![l.actionQueue] =
                                              @ \o generator.yields]

\* a second generator was drained into a queue that already held an action
C13_Witness ==
    /\ scriptCtx.last.called
    /\ scriptCtx.last.script = "emitOne()"
    /\ ~scriptCtx.last.shadowing
    /\ scriptCtx.last.actionQueue # 0
    /\ scriptCtx.last.queuesBefore[scriptCtx.last.actionQueue] # <<>>
    /\ InFlight /\ ScriptTop.pc = "next"

\* what a middleware call has dispatched once it is at its return
C14_AllDispatched(queue, action) ==
    queue \o (IF Len(queue) > 0 /\ scriptCtx.finalizeAction = "supplied"
              THEN <<Finalize(action)>> ELSE <<>>)

\* C14: a middleware call dispatches nothing while its next(action) runs;
\* after that it dispatches the actions of its queue, each once and in
\* queue order, then the finalize action, once, if and only if the queue
\* is not empty and a finalizeAction was supplied; and it returns the
\* result of next(action).
C14_QueuedActionsDispatchedAfterNext ==
    /\ \A k \in 1..Len(scriptCtx.calls) :
          LET f == scriptCtx.calls[k]
              queue == QueueOf(f)
          IN /\ f.pc = "next" => Dispatched(f.id) = <<>>
             /\ f.pc = "dispatch" => Dispatched(f.id) = SubSeq(queue, 1, f.i)
             /\ f.pc = "dispatching" =>
                   Dispatched(f.id) = SubSeq(queue, 1, f.i + 1)
             /\ f.pc = "finalizing" =>
                   /\ Dispatched(f.id) = queue \o <<Finalize(f.action)>>
                   /\ queue # <<>>
                   /\ scriptCtx.finalizeAction = "supplied"
             /\ f.pc = "return" =>
                   Dispatched(f.id) = C14_AllDispatched(queue, f.action)
             /\ f.pc # "next" => f.result = NextResult(f.action)
    /\ (~InFlight /\ scriptCtx.ended = "returned") =>
          /\ Dispatched(1) = C14_AllDispatched(scriptCtx.first.queue,
                                               scriptCtx.first.action)
          /\ scriptCtx.returned = NextResult(scriptCtx.first.action)

\* a dispatch has returned after dispatching two different queued actions
\* and the finalize action, each through a middleware call of its own
C14_Witness ==
    /\ ~InFlight /\ scriptCtx.ended = "returned"
    /\ Len(scriptCtx.first.queue) >= 2
    /\ scriptCtx.first.queue[1] # scriptCtx.first.queue[2]
    /\ scriptCtx.finalizeAction = "supplied"
    /\ Len(Dispatched(1)) = Len(scriptCtx.first.queue) + 1
    /\ scriptCtx.ids >= 4

\* a dispatched action queued an action of its own, dispatched in turn
C14_WitnessNested ==
    /\ InFlight /\ Len(scriptCtx.calls) >= 3

\* C15: whenever no dispatch is in flight, however the last one ended, the
\* module's `state` and `actionQueue` are both undefined.
C15_ContextOnlyDuringDispatch ==
    ~InFlight => /\ scriptCtx.state = Undef
                 /\ scriptCtx.actionQueue = 0

\* C16: runScript returns true exactly when the script is empty or absent,
\* or it is run as a condition and its value is the boolean true; an
\* instruction script that only reads variables and calls registered
\* functions does not throw and leaves the variable store as it was, as
\* double(n) with n = 5 does, whose call yields 10.
C16_TrueOnlyForStrictTrue ==
    LET l == scriptCtx.last
    IN l.called =>
          /\ ~l.threw =>
                (l.result <=> \/ l.script \in {Undef, ""}
                              \/ l.returns /\ l.value = "true")
          /\ (~l.returns /\ l.script \in ReadOnlyScripts) =>
                /\ ~l.threw
                /\ ~l.result
                /\ l.variablesAfter = l.variablesBefore
          /\ (~l.returns /\ l.script = "double(n)"
                /\ l.variablesBefore.n = "5") =>
                /\ l.value = "10"
                /\ l.variablesAfter.n = "5"

\* double(n) was run as an instruction on a store with n = 5
C16_Witness ==
    /\ scriptCtx.last.called
    /\ scriptCtx.last.script = "double(n)"
    /\ ~scriptCtx.last.returns
    /\ scriptCtx.last.variablesBefore.n = "5"
    /\ ~scriptCtx.last.threw

\* a condition whose value is truthy but not the boolean true was run
C16_WitnessTruthy ==
    /\ scriptCtx.last.called
    /\ scriptCtx.last.script \in {StringTrue, "double(n)"}
    /\ scriptCtx.last.returns
    /\ ~scriptCtx.last.result

-----------------------------------------------------------------------------
(* Visits, clones per walk and continuation after StopAndContinue *)

\* the path of the branch the last advancedNextFlowState call committed
CommittedPath ==
    obs.input.branches[findBranch(obs.input, obs.bi)].path

\* C21: in every state reached from startup by commits, visits.counts and
\* visits.indicies have the same keys and every count is at least 1; a
\* commit keeps every key, lowers no count, and raises the count of each
\* node by the number of times the node occurs on the committed path.
C21_CountsFollowCommittedPaths ==
    /\ DOMAIN adv.visits.counts = DOMAIN adv.visits.indicies
    /\ \A n \in DOMAIN adv.visits.counts : adv.visits.counts[n] >= 1
    /\ (IsIdle /\ obs.lastOp = "next" /\ obs.committed) =>
          /\ DOMAIN obs.input.visits.counts \subseteq DOMAIN adv.visits.counts
          /\ \A n \in Nodes :
                /\ Count(adv.visits, n) >= Count(obs.input.visits, n)
                /\ Count(adv.visits, n) =
                      Count(obs.input.visits, n)
                         + Occurrences(CommittedPath, n)

\* a commit went through a node visited before and through a new one
C21_Witness ==
    /\ IsIdle /\ obs.lastOp = "next" /\ obs.committed
    /\ \E n \in Nodes : /\ Count(obs.input.visits, n) >= 1
                        /\ Count(adv.visits, n) = Count(obs.input.visits, n) + 1
    /\ \E n \in Nodes : /\ Count(obs.input.visits, n) = 0
                        /\ Count(adv.visits, n) = 1

C25_StopsAndContinues(n) ==
    /\ n \in graph.cfg.stop
    /\ graph.cfg.handler
    /\ graph.cfg.answer[n] = StopAndContinue

\* on every path of the list, a node that answers StopAndContinue is
\* followed by the target of its branch 0
C25_FollowsBranchZero(branches) ==
    \A b \in 1..Len(branches) :
        LET path == branches[b].path
        IN \A k \in 1..(Len(path) - 1) :
              C25_StopsAndContinues(path[k]) =>
                  /\ graph.targets[path[k]] # <<>>
                  /\ path[k + 1] = graph.targets[path[k]][1]

\* C25: past a node N whose stop handler answers StopAndContinue the
\* collection follows N's branch 0 only: in every branch list a call holds
\* or returns and in every branches cache, N is followed on a path by the
\* target of its branch 0, so a node reached only through another branch
\* of N ends no branch.
C25_ContinuationTakesBranchZero ==
    /\ \A k \in 1..Len(stack) : C25_FollowsBranchZero(stack[k].result)
    /\ C25_FollowsBranchZero(adv.branches)

\* a refresh went on past a StopAndContinue node that has two branches and
\* returned a branch through it
C25_Witness ==
    /\ IsIdle
    /\ \E b \in 1..Len(adv.branches) :
          LET path == adv.branches[b].path
          IN \E k \in 1..(Len(path) - 1) :
                /\ C25_StopsAndContinues(path[k])
                /\ Len(graph.targets[path[k]]) >= 2
                /\ path[k] \notin graph.guard

-----------------------------------------------------------------------------
(* Termination of collectBranches on graphs without a cycle.  The steps of *)
(* a call are steps of one synchronous function: a step that can be taken  *)
(* is taken, which is what the fairness conditions say.                    *)

\* the nodes a node's branches lead to
Successors(g, n) ==
    {g.targets[n][k] : k \in 1..Len(g.targets[n])} \cap Nodes

\* the nodes reached from the set S in at most k more steps
RECURSIVE ReachedFrom(_, _, _)
ReachedFrom(g, S, k) ==
    IF k = 0 THEN S
    ELSE ReachedFrom(g, S \cup UNION {Successors(g, n) : n \in S}, k - 1)

\* no node of the graph leads back to itself
Acyclic(g) ==
    \A n \in Nodes :
        n \notin ReachedFrom(g, Successors(g, n), Cardinality(Nodes))

TerminationGraphs == {g \in Graphs : /\ Acyclic(g)
                                     /\ g.script \in {{}, {"B"}}
                                     /\ g.guard \in {{}, {"A"}}
                                     /\ g.onlyOnce \in {{}, {"B"}}}

InitTermination == Init /\ graph \in TerminationGraphs

StepTermination ==
    \/ \E id \in Ids \cup {Null}, shadowing \in {Undef, "true"},
          visits \in InputVisits :
          \E content \in InputContents(id) :
             CollectCall(id, shadowing, content, visits)
    \/ CollectDone
    \/ CB_Walk
    \/ CB_Fork
    \/ CB_Return

SpecTermination ==
    /\ InitTermination
    /\ [][StepTermination]_vars
    /\ WF_vars(CB_Walk)
    /\ WF_vars(CB_Fork)
    /\ WF_vars(CB_Return)
    /\ WF_vars(CollectDone)

\* C26: on a graph without a cycle every collectBranches call returns,
\* whatever its start state, the stop-set, the answers of the custom stop
\* handler and the VisitSet.
C26_CollectReturnsOnAcyclicGraph ==
    (Acyclic(graph) /\ op.kind = "collect") ~>
        (obs.lastOp = "collect" /\ obs.result.done)

\* a call on a graph without a cycle has returned several branches after
\* going through forks
C26_Witness ==
    /\ Acyclic(graph)
    /\ obs.lastOp = "collect" /\ obs.result.done
    /\ Len(obs.result.branches) >= 2
    /\ graph.cfg.handler

-----------------------------------------------------------------------------
(* Feature execution handlers: the application registers handlers, then    *)
(* starts the flow and commits branches.                                   *)

HookGraphs == {g \in Graphs :
                 /\ g.targets \in {Tgt(<<"B">>, <<"C">>, <<>>, <<>>),
                                   Tgt(<<"B">>, <<"C", "D">>, <<>>, <<>>)}
                 /\ g.script = {"B"}
                 /\ g.guard = {}
                 /\ g.onlyOnce \in {{}, {"B"}}
                 /\ g.cfg.stop = {"C", "D"}}

\* RegisterFeatureExecutionHandler(name, handler) (162-171)
RegisterFeatureExecutionHandler(name, handler) ==
    /\ IsIdle /\ ~obs.started
    /\ Len(scriptCtx.featureHandlers[name]) < MaxHandlers
    /\ scriptCtx' = [scriptCtx EXCEPT
                        !.featureHandlers[name] = Append(@, handler)]
    /\ UNCHANGED <<graph, stores, iters, stack, adv, op, obs>>

InitHooks == Init /\ graph \in HookGraphs

StepHooks ==
    \/ \E name \in Features, handler \in Handlers :
          RegisterFeatureExecutionHandler(name, handler)
    \/ \E start \in StartIds : Startup(start)
    \/ StartupResume
    \/ \E branchIndex \in -1..Len(adv.branches) : Next(branchIndex)
    \/ NextDone
    \/ CB_Walk
    \/ CB_Fork
    \/ CB_Return

SpecHooks == InitHooks /\ [][StepHooks]_vars

\* the path of the last commit, made by startup or by a call of
\* advancedNextFlowState
HookedPath ==
    IF obs.lastOp = "startup" THEN C11_Branch.path ELSE CommittedPath

\* the handlers registered for the features of a node's template from key
\* k on that have any, feature by feature in registration order
RECURSIVE C22_HandlersDue(_, _)
C22_HandlersDue(n, k) ==
    IF k > Len(template(n)) THEN <<>>
    ELSE LET handlers == HandlersOf(scriptCtx.featureHandlers, template(n)[k])
         IN [j \in 1..Len(handlers) |->
                [node |-> n, feature |-> template(n)[k],
                 handler |-> handlers[j]]]
            \o C22_HandlersDue(n, k + 1)

\* the same for the nodes of a path from step k on
RECURSIVE C22_PathHandlersDue(_, _)
C22_PathHandlersDue(path, k) ==
    IF k > Len(path) THEN <<>>
    ELSE C22_HandlersDue(path[k], 1) \o C22_PathHandlersDue(path, k + 1)

\* C22: a commit calls, for every node of its path and every feature of the
\* node's template that has handlers, every handler of the feature once, in
\* registration order, whatever the other features of the template.
C22_EveryRegisteredHandlerRuns ==
    (IsIdle /\ obs.committed) =>
        [j \in 1..Len(obs.invoked) |->
            [node |-> obs.invoked[j].node,
             feature |-> obs.invoked[j].feature,
             handler |-> obs.invoked[j].handler]]
          = C22_PathHandlersDue(HookedPath, 1)

\* C23: the state a handler is passed for a step of the path shows the
\* commit so far: its store holds what the scripts of the steps up to this
\* one have written, its visits count the earlier steps.
C23_HandlersSeeEvolvingState ==
    \A j \in 1..Len(obs.invoked) :
        /\ obs.invoked[j].seenStore = obs.invoked[j].store
        /\ obs.invoked[j].seenVisits = obs.invoked[j].visits

-----------------------------------------------------------------------------
(* Dispatches made while next(action) is running *)

StepNested ==
    \/ \E finalizeAction \in {"supplied", "absent"} :
          CreateMiddleware(finalizeAction)
    \/ \E action \in Actions : Dispatch(action)
    \/ \E script \in GeneratorScripts, shadowing \in BOOLEAN :
          RunScript(script, FALSE, shadowing)
    \/ \E action \in Actions : DispatchInsideNext(action)
    \/ NextReturns
    \/ DispatchQueued
    \/ DispatchFinalize
    \/ MiddlewareReturns

SpecNested == InitScript /\ [][StepNested]_vars

\* C27: once a dispatch made inside next(action) of a middleware call has
\* run to completion, the rest of that call's evaluation runs without
\* context (`actionQueue` and `state` undefined): actions yielded by native
\* functions in it, shadowing off, are not queued, so the call's queue
\* stays what it was when the inner dispatch was made, and the call
\* dispatches exactly that queue after its next(action) has returned (and
\* the finalize action as usual), nothing of what was yielded later.
C27_NestedDispatchClearsContext ==
    /\ \A k \in 1..Len(scriptCtx.calls) :
          LET f == scriptCtx.calls[k]
          IN f.cleared =>
                /\ QueueOf(f) = f.atNested
                /\ (k = Len(scriptCtx.calls) /\ f.pc = "next") =>
                      /\ scriptCtx.actionQueue = 0
                      /\ scriptCtx.state = Undef
                /\ f.pc = "return" =>
                      Dispatched(f.id) = C14_AllDispatched(f.atNested, f.action)
    /\ (/\ InFlight
        /\ scriptCtx.last.called
        /\ ScriptTop.cleared
        /\ ScriptTop.pc = "next") =>
          scriptCtx.last.queuesAfter = scriptCtx.last.queuesBefore

\* a call queued an action, a dispatch ran to completion inside its
\* next(action), a later native function yielded actions with shadowing
\* off, and the call has dispatched its queue
C27_Witness ==
    /\ InFlight
    /\ ScriptTop.cleared
    /\ ScriptTop.atNested # <<>>
    /\ ScriptTop.lost > 0
    /\ ScriptTop.pc = "return"

====
